---- MODULE Spec2Model ----
(***************************************************************************)
(* QC-Lab, QAOA Max-Cut notebook: the operator builder                     *)
(* (single_site_operator, two_site_operator, construct_C_graph,            *)
(* construct_B), the state evolution loop (construct_wavefunction), the    *)
(* objective evaluator (target_expval), the optimizer driver (the minimize *)
(* cell and the cell that builds the optimized wavefunction), and the      *)
(* partial_trace helper with its consistency test.                         *)
(*                                                                         *)
(* A matrix is a function  0..d-1 -> (0..d-1 -> Int) : row index, then     *)
(* column index, both zero-based as in NumPy.  A call either returns a     *)
(* value or raises; the outcome of a call is the record                    *)
(* [raised |-> BOOLEAN, value |-> ...].                                    *)
(***************************************************************************)
EXTENDS Integers, Sequences, FiniteSets, TLC

\* ------------------------------------------------------------- bounds
\* qubit counts 1..MaxN
MaxN == 3
\* qubit indices are drawn from -IdxSlack .. n-1+IdxSlack
IdxSlack == 1
\* edge lists of length 0..MaxEdges
MaxEdges == 2
\* parameter lists of length 0..MaxP
MaxP == 2
\* the parameter values are the symbolic angles 1..NumAngles
NumAngles == 2
\* construct_wavefunction / target_expval are called for 1..WfMaxN qubits
WfMaxN == 2
\* the minimizer evaluates the objective at most MaxEvals times
MaxEvals == 3
\* the partial trace is taken for subsystem dimensions 1..MaxDim
MaxDim == 2
\* reorder_gate is called for gates on 1..MaxQubits qubits
MaxQubits == 3

\* ------------------------------------------------------------- values
Return(v) == [raised |-> FALSE, value |-> v]
Raise == [raised |-> TRUE, value |-> <<>>]

\* Python's 2**k on ints: an int for k >= 0, the float 1/2^(-k) for k < 0
PyPow2(k) ==
  IF k >= 0 THEN [isint |-> TRUE, num |-> 2^k, den |-> 1]
            ELSE [isint |-> FALSE, num |-> 1, den |-> 2^(-k)]

Dim(M) == Cardinality(DOMAIN M)

\* int(np.round(np.log2(d))) for d a power of two
RECURSIVE Log2(_)
Log2(d) == IF d <= 1 THEN 0 ELSE 1 + Log2(d \div 2)

\* Pauli matrices (the real ones)
Xmat == [r \in 0..1 |-> [c \in 0..1 |-> IF r = c THEN 0 ELSE 1]]
Zmat == [r \in 0..1 |-> [c \in 0..1 |-> IF r # c THEN 0 ELSE IF r = 0 THEN 1 ELSE -1]]

\* np.zeros((d, d))
np_zeros(d) == [r \in 0..d-1 |-> [c \in 0..d-1 |-> 0]]

\* np.identity(x): x must be an integer, a float is a TypeError
np_identity(x) ==
  IF x.isint
    THEN Return([r \in 0..x.num-1 |-> [c \in 0..x.num-1 |-> IF r = c THEN 1 ELSE 0]])
    ELSE Raise

\* np.kron(A, B) of two square matrices: block (r div m, c div m) of the
\* result is A[r div m][c div m] * B, with m the dimension of B
KronMat(A, B) ==
  LET m == Dim(B)
      d == Dim(A) * m
  IN [r \in 0..d-1 |-> [c \in 0..d-1 |->
        A[r \div m][c \div m] * B[r % m][c % m]]]

\* np.kron over argument expressions that may raise
np_kron(ra, rb) ==
  IF ra.raised \/ rb.raised THEN Raise ELSE Return(KronMat(ra.value, rb.value))

MatAdd(A, B) == [r \in DOMAIN A |-> [c \in DOMAIN A |-> A[r][c] + B[r][c]]]
MatSub(A, B) == [r \in DOMAIN A |-> [c \in DOMAIN A |-> A[r][c] - B[r][c]]]
\* C *= 0.5
MatHalf(A) == [r \in DOMAIN A |-> [c \in DOMAIN A |-> A[r][c] \div 2]]

\* ------------------------------------------------------------- operator builder
\* variant: the index taken modulo n, as Python sequence indexing would
single_site_operator_wrap(op, j, n) ==
  np_kron(np_identity(PyPow2(n-(j % n)-1)),
          np_kron(Return(op), np_identity(PyPow2(j % n))))

\* variant: qubit 0 as the leftmost tensor factor
single_site_operator_msb(op, j, n) ==
  np_kron(np_identity(PyPow2(j)),
          np_kron(Return(op), np_identity(PyPow2(n-j-1))))

single_site_operator(op, j, n) ==
  np_kron(np_identity(PyPow2(n-j-1)),
          np_kron(Return(op), np_identity(PyPow2(j))))

\* variant: qubit 0 as the leftmost tensor factor
RECURSIVE two_site_operator_msb(_, _, _, _, _)
two_site_operator_msb(op1, op2, i, j, n) ==
  IF i > j
    THEN two_site_operator_msb(op2, op1, j, i, n)
    ELSE np_kron(np_identity(PyPow2(i)),
         np_kron(Return(op1),
         np_kron(np_identity(PyPow2(j-i-1)),
         np_kron(Return(op2), np_identity(PyPow2(n-j-1))))))

\* variant: the flip exchanges i and j but not op1 and op2
RECURSIVE two_site_operator_noswap(_, _, _, _, _)
two_site_operator_noswap(op1, op2, i, j, n) ==
  IF i > j
    THEN two_site_operator_noswap(op1, op2, j, i, n)
    ELSE np_kron(np_identity(PyPow2(n-j-1)),
         np_kron(Return(op2),
         np_kron(np_identity(PyPow2(j-i-1)),
         np_kron(Return(op1), np_identity(PyPow2(i))))))

\* variant: the exponent of the middle identity clamped at 0
RECURSIVE two_site_operator_clamp(_, _, _, _, _)
two_site_operator_clamp(op1, op2, i, j, n) ==
  IF i > j
    THEN two_site_operator_clamp(op2, op1, j, i, n)
    ELSE np_kron(np_identity(PyPow2(n-j-1)),
         np_kron(Return(op2),
         np_kron(np_identity(PyPow2(IF j-i-1 < 0 THEN 0 ELSE j-i-1)),
         np_kron(Return(op1), np_identity(PyPow2(i))))))

RECURSIVE two_site_operator(_, _, _, _, _)
two_site_operator(op1, op2, i, j, n) ==
  IF i > j
    THEN two_site_operator(op2, op1, j, i, n)
    ELSE np_kron(np_identity(PyPow2(n-j-1)),
         np_kron(Return(op2),
         np_kron(np_identity(PyPow2(j-i-1)),
         np_kron(Return(op1), np_identity(PyPow2(i))))))

\* variant: C += identity + Z_j Z_k, which counts the edges that are not cut
RECURSIVE CGraphSum_uncut(_, _, _)
CGraphSum_uncut(edges, nvertices, k) ==
  IF k = 0 THEN Return(np_zeros(2^nvertices))
  ELSE LET prev == CGraphSum_uncut(edges, nvertices, k-1)
           edge == edges[k]
           zz   == two_site_operator(Zmat, Zmat, edge[1], edge[2], nvertices)
           id   == np_identity(PyPow2(nvertices))
       IN IF prev.raised \/ zz.raised \/ id.raised THEN Raise
          ELSE Return(MatAdd(prev.value, MatAdd(id.value, zz.value)))

\* variant: an edge that was listed before, in either orientation, is skipped
RECURSIVE CGraphSum_dedup(_, _, _)
CGraphSum_dedup(edges, nvertices, k) ==
  IF k = 0 THEN Return(np_zeros(2^nvertices))
  ELSE LET prev == CGraphSum_dedup(edges, nvertices, k-1)
           edge == edges[k]
           zz   == two_site_operator(Zmat, Zmat, edge[1], edge[2], nvertices)
           id   == np_identity(PyPow2(nvertices))
           seen == \E m \in 1..k-1 :
                     edges[m] = edge \/ edges[m] = <<edge[2], edge[1]>>
       IN IF prev.raised \/ zz.raised \/ id.raised THEN Raise
          ELSE IF seen THEN prev
          ELSE Return(MatAdd(prev.value, MatSub(id.value, zz.value)))

\* variant: C = identity - Z_j Z_k, an assignment where the code accumulates
RECURSIVE CGraphSum_overwrite(_, _, _)
CGraphSum_overwrite(edges, nvertices, k) ==
  IF k = 0 THEN Return(np_zeros(2^nvertices))
  ELSE LET prev == CGraphSum_overwrite(edges, nvertices, k-1)
           edge == edges[k]
           zz   == two_site_operator(Zmat, Zmat, edge[1], edge[2], nvertices)
           id   == np_identity(PyPow2(nvertices))
       IN IF prev.raised \/ zz.raised \/ id.raised THEN Raise
          ELSE Return(MatSub(id.value, zz.value))

\* the accumulation loop of construct_C_graph over the first k edges:
\* C += identity - Z_j Z_k, the whole call raising when a term raises
RECURSIVE CGraphSum(_, _, _)
CGraphSum(edges, nvertices, k) ==
  IF k = 0 THEN Return(np_zeros(2^nvertices))
  ELSE LET prev == CGraphSum(edges, nvertices, k-1)
           edge == edges[k]
           zz   == two_site_operator(Zmat, Zmat, edge[1], edge[2], nvertices)
           id   == np_identity(PyPow2(nvertices))
       IN IF prev.raised \/ zz.raised \/ id.raised THEN Raise
          ELSE Return(MatAdd(prev.value, MatSub(id.value, zz.value)))

\* variant: the scaling C *= 0.5 left out
construct_C_graph_nohalf(edges, nvertices) ==
  CGraphSum(edges, nvertices, Len(edges))

construct_C_graph(edges, nvertices) ==
  LET s == CGraphSum(edges, nvertices, Len(edges))
  IN IF s.raised THEN Raise ELSE Return(MatHalf(s.value))

\* the loop of construct_B over i = 0..k-1
RECURSIVE BSum(_, _)
BSum(n, k) ==
  IF k = 0 THEN Return(np_zeros(2^n))
  ELSE LET prev == BSum(n, k-1)
           x    == single_site_operator(Xmat, k-1, n)
       IN IF prev.raised \/ x.raised THEN Raise
          ELSE Return(MatAdd(prev.value, x.value))

\* variant: range(n-1), the last qubit left out
construct_B_short(n) == BSum(n, n-1)

construct_B(n) == BSum(n, n)

\* graph_edges of the notebook and its vertex count
graph_edges == << <<0, 1>>, <<1, 2>>, <<1, 3>>, <<2, 4>>, <<3, 4>> >>
graph_nvertices == 5
\* the diagonal the notebook's consistency check compares with
expected_diag ==
  <<0, 1, 3, 2, 2, 3, 3, 2, 2, 3, 3, 2, 4, 5, 3, 2,
    2, 3, 5, 4, 2, 3, 3, 2, 2, 3, 3, 2, 2, 3, 1, 0>>

\* ------------------------------------------------------------- state evolution
\* variant: np.ones(2**n) without the division by sqrt(2**n)
uniform_state_unnormalized(n) ==
  [amp     |-> [b \in 0..2^n-1 |-> [num |-> 1, sqrt_den |-> 1]],
   applied |-> <<>>]

\* uniform_state(n): 2^n equal amplitudes 1/sqrt(2^n), a real (float64) vector
\* to which no unitary has been applied yet
uniform_state(n) ==
  [amp     |-> [b \in 0..2^n-1 |-> [num |-> 1, sqrt_den |-> 2^n]],
   applied |-> <<>>]

\* expm(-1j*t*H) for the operator H passed as parameter `name`: the unitary
\* of H's dimension generated by that operator run for the angle t
expm(name, t, H) == [gen |-> name, angle |-> t, dim |-> Dim(H)]

\* U @ psi
MatVec(U, psi) == [psi EXCEPT !.applied = Append(@, U)]

\* dtype of the NumPy array holding psi: expm(-1j*...) is complex
Dtype(psi) == IF psi.applied = <<>> THEN "float64" ELSE "complex128"

\* zip(a, b): stops at the end of the shorter sequence
PyZip(a, b) ==
  LET m == IF Len(a) <= Len(b) THEN Len(a) ELSE Len(b)
  IN [k \in 1..m |-> <<a[k], b[k]>>]

\* variant: the mixer applied before the cost unitary
LoopBody_mixer_first(B, C, psi, pair) ==
  MatVec(expm("C", pair[2], C), MatVec(expm("B", pair[1], B), psi))

\* one pass of the loop body of construct_wavefunction for the pair (beta, gamma)
LoopBody(B, C, psi, pair) ==
  MatVec(expm("B", pair[1], B), MatVec(expm("C", pair[2], C), psi))

\* variant: B and C scaled in place while the layer is applied
LoopEffect_inplace(B, C, psi, pair) ==
  [psi |-> LoopBody(B, C, psi, pair),
   B   |-> [r \in DOMAIN B |-> [c \in DOMAIN B |-> pair[1] * B[r][c]]],
   C   |-> [r \in DOMAIN C |-> [c \in DOMAIN C |-> pair[2] * C[r][c]]]]

\* what one pass of the loop leaves behind: psi is rebound to the new vector;
\* expm, * and @ allocate their results, so the arrays B and C the caller
\* passed in are the same objects with the same entries
LoopEffect(B, C, psi, pair) ==
  [psi |-> LoopBody(B, C, psi, pair), B |-> B, C |-> C]

\* variant: psi kept from the previous call when there is one
EnterPsi_carry(prev, B) ==
  IF prev.amp = <<>> THEN uniform_state(Log2(Dim(B))) ELSE prev

\* first statement of construct_wavefunction: psi is assigned the uniform
\* state for n = log2(len(B)) qubits, whatever an earlier call left in it
EnterPsi(prev, B) == uniform_state(Log2(Dim(B)))

\* np.vdot(psi, np.dot(C, psi))
np_vdot_C(psi, C) == [dtype |-> Dtype(psi), bra |-> psi, op |-> C, ket |-> psi]

\* ------------------------------------------------------------- partial trace
\* sum of f[0] .. f[k-1]
RECURSIVE SumIdx(_, _)
SumIdx(f, k) == IF k = 0 THEN 0 ELSE f[k - 1] + SumIdx(f, k - 1)

\* A @ B for square matrices of equal dimension
MatMul(A, B) ==
  [r \in DOMAIN A |-> [c \in DOMAIN A |->
     SumIdx([k \in DOMAIN A |-> A[r][k] * B[k][c]], Dim(A))]]

\* np.trace of a matrix
np_trace(A) == SumIdx([k \in DOMAIN A |-> A[k][k]], Dim(A))

\* variant: the index of subsystem A taken as the fast one of a row or column
rho_reshape_swapped(rho, dimA, dimB) ==
  [a \in 0..dimA-1 |-> [b \in 0..dimB-1 |->
     [a2 \in 0..dimA-1 |-> [b2 \in 0..dimB-1 |->
        rho[b * dimA + a][b2 * dimA + a2]]]]]

\* rho.reshape((dimA, dimB, dimA, dimB)) in C order: row a*dimB + b and
\* column a2*dimB + b2 of rho become the entry [a][b][a2][b2]
rho_reshape(rho, dimA, dimB) ==
  [a \in 0..dimA-1 |-> [b \in 0..dimB-1 |->
     [a2 \in 0..dimA-1 |-> [b2 \in 0..dimB-1 |->
        rho[a * dimB + b][a2 * dimB + b2]]]]]

\* np.trace(rho_tensor, axis1=1, axis2=3): the sum over b = b2
np_trace_axes_1_3(T, dimA, dimB) ==
  [a \in 0..dimA-1 |-> [a2 \in 0..dimA-1 |->
     SumIdx([b \in 0..dimB-1 |-> T[a][b][a2][b]], dimB)]]

\* np.trace(rho_tensor, axis1=0, axis2=2): the sum over a = a2
np_trace_axes_0_2(T, dimA, dimB) ==
  [b \in 0..dimB-1 |-> [b2 \in 0..dimB-1 |->
     SumIdx([a \in 0..dimA-1 |-> T[a][b][a][b2]], dimA)]]

\* partial_trace(rho, dimA, dimB): the pair (rho_A, rho_B)
partial_trace(rho, dimA, dimB) ==
  LET rho_tensor == rho_reshape(rho, dimA, dimB)
  IN <<np_trace_axes_1_3(rho_tensor, dimA, dimB),
       np_trace_axes_0_2(rho_tensor, dimA, dimB)>>

\* ------------------------------------------------------------- reorder_gate
\* the k-th of the n binary digits of the index r, the first the most
\* significant: the position of r along axis k of a C-order reshape to n*[2]
Digit(r, k, n) == (r \div 2^(n - k)) % 2

\* the index whose n binary digits are d[1..n], the first the most significant
RECURSIVE FromDigits(_, _)
FromDigits(d, n) ==
  IF n = 0 THEN 0 ELSE 2 * FromDigits(d, n - 1) + d[n]

\* np.reshape(G, 2*n*[2]): axes 1..n are the digits of the row index, axes
\* n+1..2n those of the column index
np_reshape_tensor(G, n) ==
  [idx \in [1..2*n -> 0..1] |->
     G[FromDigits([k \in 1..n |-> idx[k]], n)]
      [FromDigits([k \in 1..n |-> idx[n + k]], n)]]

\* variant: axis perm2[k] of the result is axis k of the input
np_transpose_inverse(T, perm2) ==
  IF {perm2[k] : k \in DOMAIN perm2} # 0..Len(perm2)-1 THEN Raise
  ELSE Return([idx \in DOMAIN T |->
                 T[[a \in DOMAIN idx |-> idx[perm2[a] + 1]]]])

\* np.transpose(T, perm2): axis k of the result is axis perm2[k] of the
\* input; a list that is not a permutation of the axes is a ValueError
np_transpose(T, perm2) ==
  IF {perm2[k] : k \in DOMAIN perm2} # 0..Len(perm2)-1 THEN Raise
  ELSE LET at == [a \in DOMAIN perm2 |-> CHOOSE k \in DOMAIN perm2 : perm2[k] = a - 1]
       IN Return([idx \in DOMAIN T |-> T[[a \in DOMAIN idx |-> idx[at[a]]]]])

\* np.reshape(T, (2**n, 2**n))
np_reshape_matrix(T, n) ==
  [r \in 0..2^n-1 |-> [c \in 0..2^n-1 |->
     T[[k \in 1..2*n |-> IF k <= n THEN Digit(r, k, n) ELSE Digit(c, k - n, n)]]]]

\* reorder_gate(G, perm)
reorder_gate(G, perm) ==
  LET n == Len(perm)
      perm2 == perm \o [k \in 1..n |-> n + perm[k]]
      t == np_transpose(np_reshape_tensor(G, n), perm2)
  IN IF t.raised THEN Raise ELSE Return(np_reshape_matrix(t.value, n))

\* np.kron(np.kron(A, B), C) ... for the list of factors fs, at least one
RECURSIVE KronAll(_, _)
KronAll(fs, k) ==
  IF k = 1 THEN fs[1] ELSE KronMat(KronAll(fs, k - 1), fs[k])

CNOT ==
  << <<1, 0, 0, 0>>, <<0, 1, 0, 0>>, <<0, 0, 0, 1>>, <<0, 0, 1, 0>> >>
\* CNOT as a matrix with zero-based indices
CNOTmat == [r \in 0..3 |-> [c \in 0..3 |-> CNOT[r + 1][c + 1]]]

\* ------------------------------------------------------------- optimizer driver
\* number of layers set by the notebook: p = 2
p == 2

\* Python slice x[a:b] of a vector held as a 1-based sequence
PySlice(x, a, b) == SubSeq(x, a + 1, b)

\* np.zeros(k) for a vector
np_zeros_vec(k) == [i \in 1..k |-> 0]

\* the operators the lambda (and the cell after the run) builds for its call
construct_B_5 == construct_B(graph_nvertices)
construct_C_graph_5 == construct_C_graph(graph_edges, graph_nvertices)

\* variant: the two slices of x exchanged
ObjectiveArgs_swapped(x) ==
  [B      |-> construct_B_5.value,
   C      |-> construct_C_graph_5.value,
   betas  |-> PySlice(x, p, 2*p),
   gammas |-> PySlice(x, 0, p)]

\* arguments of target_expval in  lambda x: -target_expval(construct_B(5),
\* construct_C_graph(graph_edges, 5), x[0:p], x[p:2*p])
ObjectiveArgs(x) ==
  [B      |-> construct_B_5.value,
   C      |-> construct_C_graph_5.value,
   betas  |-> PySlice(x, 0, p),
   gammas |-> PySlice(x, p, 2*p)]

\* unary minus of the lambda, applied to the scalar target_expval returned
Neg(v) == [op |-> "neg", arg |-> v]

\* fsim[k] = func(sim[k]): the minimizer stores the value in a float64 array,
\* which keeps the real part of a complex value and drops the rest
CastReal(v) == [op |-> "real", arg |-> v]

\* ------------------------------------------------------------- inputs
\* 2x2 matrices passed as `op`: Pauli X, Pauli Z and the four unit matrices,
\* which span all 2x2 matrices
UnitMats ==
  {[r \in 0..1 |-> [c \in 0..1 |-> IF r = a /\ c = b THEN 1 ELSE 0]] : a, b \in 0..1}
OpSet == {Xmat, Zmat} \cup UnitMats

RECURSIVE SeqsUpTo(_, _)
SeqsUpTo(S, k) ==
  IF k = 0 THEN {<<>>}
  ELSE LET shorter == SeqsUpTo(S, k-1)
       IN shorter \cup {Append(q, x) : q \in {t \in shorter : Len(t) = k-1}, x \in S}

Qubits(n) == 0..n-1
LooseQubits(n) == (0-IdxSlack)..(n-1+IdxSlack)
\* edge lists over the vertices 0..n-1, self-loops and repetitions included
EdgeLists(n) == SeqsUpTo(Qubits(n) \X Qubits(n), MaxEdges)
ParamLists == SeqsUpTo(1..NumAngles, MaxP)
\* line graph 0-1-...-(n-1)
LineEdges(n) == [k \in 1..n-1 |-> <<k-1, k>>]
\* matrices of dimension d a test round draws: the d*d unit matrices, which
\* span all d x d matrices, and the matrix with entries 1, 2, ..., d*d in
\* row order, whose entries are all different
UnitMatsOf(d) ==
  {[r \in 0..d-1 |-> [c \in 0..d-1 |-> IF r = a /\ c = b THEN 1 ELSE 0]] :
     a, b \in 0..d-1}
CountingMat(d) == [r \in 0..d-1 |-> [c \in 0..d-1 |-> r * d + c + 1]]
TestMats(d) == UnitMatsOf(d) \cup {CountingMat(d)}
\* 2x2 factors of the gates passed to reorder_gate: three matrices no two of
\* which are equal, one of them with four different entries
GateFactors == {Xmat, Zmat, CountingMat(2)}
\* lists passed as perm for n qubits: the permutations of 0..n-1, and the
\* list of n zeros, which is a permutation for n = 1 only
PermLists(n) ==
  {s \in [1..n -> 0..n-1] :
     {s[k] : k \in 1..n} = 0..n-1 \/ \A k \in 1..n : s[k] = 0}
\* parameter vectors of length 2p the minimizer may try
DriverPoints == [1..2*p -> 0..NumAngles]

\* ------------------------------------------------------------- state
VARIABLES
  fn,    \* the function whose call was started last ("none" before the first)
  args,  \* its arguments
  pc,    \* "idle", or "loop" inside the for loop of construct_wavefunction
  psi,   \* the local variable psi of construct_wavefunction
  it,    \* number of pairs the zip iterator has yielded
  ret,   \* outcome of the last finished call
  drv    \* the optimizer driver: the minimize cell and what follows it

vars == <<fn, args, pc, psi, it, ret, drv>>

NoPsi == [amp |-> <<>>, applied |-> <<>>]

\* the driver before the minimize cell runs
NoDriver ==
  [phase    |-> "idle",   \* idle, minimizing, evaluating, done, psi_opt
   x        |-> <<>>,     \* point of the evaluation started last
   y        |-> <<>>,     \* value the lambda returned for x, once it has
   first    |-> <<>>,     \* point and value of the first evaluation
   nevals   |-> 0,        \* objective evaluations made
   builds_B |-> 0,        \* calls of construct_B during the run
   builds_C |-> 0,        \* calls of construct_C_graph during the run
   res      |-> <<>>,     \* the OptimizeResult
   reads    |-> {}]       \* attributes of res the notebook has read

Init ==
  /\ fn = "none"
  /\ args = <<>>
  /\ pc = "idle"
  /\ psi = NoPsi
  /\ it = 0
  /\ ret = Return(<<>>)
  /\ drv = NoDriver

\* Every behaviour is one top-level call: the functions are pure and share
\* no state, so a call starts from the state in which nothing has run yet.
Call_single_site_operator ==
  /\ fn = "none"
  /\ \E n \in 1..MaxN : \E j \in LooseQubits(n) : \E op \in OpSet :
      /\ fn' = "single_site_operator"
      /\ args' = [op |-> op, j |-> j, n |-> n]
      /\ ret' = single_site_operator(op, j, n)
      /\ UNCHANGED <<pc, psi, it, drv>>

Call_two_site_operator ==
  /\ fn = "none"
  /\ \E n \in 1..MaxN : \E i, j \in LooseQubits(n) : \E op1, op2 \in OpSet :
      /\ fn' = "two_site_operator"
      /\ args' = [op1 |-> op1, op2 |-> op2, i |-> i, j |-> j, n |-> n]
      /\ ret' = two_site_operator(op1, op2, i, j, n)
      /\ UNCHANGED <<pc, psi, it, drv>>

Call_construct_C_graph ==
  /\ fn = "none"
  /\ \E n \in 1..MaxN : \E edges \in EdgeLists(n) :
      /\ fn' = "construct_C_graph"
      /\ args' = [edges |-> edges, n |-> n]
      /\ ret' = construct_C_graph(edges, n)
      /\ UNCHANGED <<pc, psi, it, drv>>

\* the notebook's example cell: construct_C_graph(graph_edges, 5)
Call_example_C_graph ==
  /\ fn = "none"
  /\ fn' = "construct_C_graph"
  /\ args' = [edges |-> graph_edges, n |-> graph_nvertices]
  /\ ret' = construct_C_graph(graph_edges, graph_nvertices)
  /\ UNCHANGED <<pc, psi, it, drv>>

Call_construct_B ==
  /\ fn = "none"
  /\ \E n \in 1..MaxN :
      /\ fn' = "construct_B"
      /\ args' = [n |-> n]
      /\ ret' = construct_B(n)
      /\ UNCHANGED <<pc, psi, it, drv>>

\* construct_wavefunction, up to the for loop:
\* psi = uniform_state(int(np.round(np.log2(len(B)))))
Call_construct_wavefunction ==
  /\ fn = "none"
  /\ \E n \in 1..WfMaxN : \E betas, gammas \in ParamLists :
      /\ fn' = "construct_wavefunction"
      /\ args' = [B |-> construct_B(n).value,
                  C |-> construct_C_graph(LineEdges(n), n).value,
                  betas |-> betas, gammas |-> gammas]
      /\ psi' = EnterPsi(psi, args'.B)
      /\ it' = 0
      /\ pc' = "loop"
      /\ UNCHANGED <<ret, drv>>

\* target_expval, whose first statement calls construct_wavefunction
Call_target_expval ==
  /\ fn = "none"
  /\ \E n \in 1..WfMaxN : \E betas, gammas \in ParamLists :
      /\ fn' = "target_expval"
      /\ args' = [B |-> construct_B(n).value,
                  C |-> construct_C_graph(LineEdges(n), n).value,
                  betas |-> betas, gammas |-> gammas]
      /\ psi' = EnterPsi(psi, args'.B)
      /\ it' = 0
      /\ pc' = "loop"
      /\ UNCHANGED <<ret, drv>>

\* for beta, gamma in zip(betas, gammas): psi = expm(-1j*beta*B) @ (expm(-1j*gamma*C) @ psi)
LoopIter ==
  /\ pc = "loop"
  /\ it < Len(PyZip(args.betas, args.gammas))
  /\ it' = it + 1
  /\ LET eff == LoopEffect(args.B, args.C, psi, PyZip(args.betas, args.gammas)[it + 1])
     IN /\ psi' = eff.psi
        /\ args' = [args EXCEPT !.B = eff.B, !.C = eff.C]
  /\ UNCHANGED <<fn, pc, ret, drv>>

\* the iterator is exhausted: construct_wavefunction returns psi, and
\* target_expval goes on to return np.vdot(psi, np.dot(C, psi))
LoopExit ==
  /\ pc = "loop"
  /\ it = Len(PyZip(args.betas, args.gammas))
  /\ pc' = "idle"
  /\ ret' = IF fn = "target_expval" THEN Return(np_vdot_C(psi, args.C)) ELSE Return(psi)
  /\ UNCHANGED <<fn, args, psi, it, drv>>

\* one round of the partial-trace test: dimensions, rho and M are drawn and
\* rho_A, _ = partial_trace(rho, dimA, dimB) is computed
Call_partial_trace ==
  /\ fn = "none"
  /\ \E dimA, dimB \in 1..MaxDim :
     \E rho \in TestMats(dimA * dimB) : \E M \in TestMats(dimA) :
      /\ fn' = "partial_trace"
      /\ args' = [rho |-> rho, dimA |-> dimA, dimB |-> dimB, M |-> M]
      /\ ret' = Return(partial_trace(rho, dimA, dimB))
      /\ UNCHANGED <<pc, psi, it, drv>>

\* reorder_gate(G, perm) for G the Kronecker product of n 2x2 factors
Call_reorder_gate ==
  /\ fn = "none"
  /\ \E n \in 1..MaxQubits :
     \E fs \in [1..n -> GateFactors] : \E perm \in PermLists(n) :
      /\ fn' = "reorder_gate"
      /\ args' = [G |-> KronAll(fs, n), perm |-> perm, factors |-> fs]
      /\ ret' = reorder_gate(KronAll(fs, n), perm)
      /\ UNCHANGED <<pc, psi, it, drv>>

\* reorder_gate(CNOT, [1, 0]), the middle factor of SWAP
Call_example_reorder_gate ==
  /\ fn = "none"
  /\ fn' = "reorder_gate"
  /\ args' = [G |-> CNOTmat, perm |-> <<1, 0>>, factors |-> <<>>]
  /\ ret' = reorder_gate(CNOTmat, <<1, 0>>)
  /\ UNCHANGED <<pc, psi, it, drv>>

\* res = minimize(lambda x: ..., np.zeros(2*p), method='Nelder-Mead', ...):
\* the call starts; its first evaluation will be at the initial guess
Driver_minimize ==
  /\ fn = "none"
  /\ fn' = "minimize"
  /\ args' = [x0 |-> np_zeros_vec(2*p)]
  /\ drv' = [drv EXCEPT !.phase = "minimizing"]
  /\ UNCHANGED <<pc, psi, it, ret>>

\* the minimizer calls the lambda at a point x: the lambda builds B and C and
\* enters target_expval with the two slices of x
Min_call_objective ==
  /\ drv.phase = "minimizing"
  /\ drv.nevals < MaxEvals
  /\ \E x \in DriverPoints :
      /\ drv.nevals = 0 => x = np_zeros_vec(2*p)
      /\ fn' = "target_expval"
      /\ args' = ObjectiveArgs(x)
      /\ psi' = EnterPsi(psi, args'.B)
      /\ it' = 0
      /\ pc' = "loop"
      /\ drv' = [drv EXCEPT !.phase = "evaluating",
                            !.x = x,
                            !.y = <<>>,
                            !.builds_B = @ + 1,
                            !.builds_C = @ + 1]
      /\ UNCHANGED ret

\* target_expval has returned: the lambda negates the value and hands it to
\* the minimizer, which is running again and keeps it
Min_store ==
  /\ drv.phase = "evaluating"
  /\ pc = "idle"
  /\ fn' = "minimize"
  /\ ret' = Return(<<>>)
  /\ drv' = [drv EXCEPT !.phase = "minimizing",
                        !.y = Neg(ret.value),
                        !.nevals = @ + 1,
                        !.first = IF drv.nevals = 0
                                    THEN [x |-> drv.x, y |-> Neg(ret.value)]
                                    ELSE @]
  /\ UNCHANGED <<args, pc, psi, it>>

\* minimize returns the OptimizeResult: one of the points evaluated, the
\* value stored for it, and whether the termination criteria were met
Min_return ==
  /\ drv.phase = "minimizing"
  /\ drv.nevals >= 1
  /\ \E success \in BOOLEAN :
     \E best \in {drv.first, [x |-> drv.x, y |-> drv.y]} :
      drv' = [drv EXCEPT !.phase = "done",
                         !.res = [x |-> best.x, fun |-> CastReal(best.y),
                                  success |-> success]]
  /\ UNCHANGED <<fn, args, pc, psi, it, ret>>

\* psi_opt = construct_wavefunction(construct_B(5),
\*            construct_C_graph(graph_edges, 5), res.x[0:p], res.x[p:2*p])
Build_psi_opt ==
  /\ drv.phase = "done"
  /\ fn' = "construct_wavefunction"
  /\ args' = ObjectiveArgs(drv.res.x)
  /\ psi' = EnterPsi(psi, args'.B)
  /\ it' = 0
  /\ pc' = "loop"
  /\ drv' = [drv EXCEPT !.phase = "psi_opt", !.reads = @ \cup {"x"}]
  /\ UNCHANGED ret

Next ==
  \/ Driver_minimize
  \/ Min_call_objective
  \/ Min_store
  \/ Min_return
  \/ Build_psi_opt
  \/ Call_partial_trace
  \/ Call_reorder_gate
  \/ Call_example_reorder_gate
  \/ Call_single_site_operator
  \/ Call_two_site_operator
  \/ Call_construct_C_graph
  \/ Call_example_C_graph
  \/ Call_construct_B
  \/ Call_construct_wavefunction
  \/ Call_target_expval
  \/ LoopIter
  \/ LoopExit

Spec == Init /\ [][Next]_vars

\* the cells of the operator builder alone
NextOperators ==
  \/ Call_single_site_operator
  \/ Call_two_site_operator
  \/ Call_construct_C_graph
  \/ Call_example_C_graph
  \/ Call_construct_B

SpecOperators == Init /\ [][NextOperators]_vars

\* ------------------------------------------------------------- properties
\* bit j of basis index b, bit 0 the least significant
Bit(b, j) == (b \div 2^j) % 2
\* b with bit j flipped (b XOR 2^j)
FlipBit(b, j) == IF Bit(b, j) = 0 THEN b + 2^j ELSE b - 2^j
\* a and b agree on every bit of 0..n-1 outside `except`
AgreeOutside(a, b, n, except) == \A k \in (0..n-1) \ except : Bit(a, k) = Bit(b, k)
\* number of edges of the list that assignment b cuts
CutSize(edges, b) ==
  Cardinality({k \in DOMAIN edges : Bit(b, edges[k][1]) # Bit(b, edges[k][2])})
NoSelfLoop(edges) == \A k \in DOMAIN edges : edges[k][1] # edges[k][2]
IsSquare(M, d) == DOMAIN M = 0..d-1 /\ \A r \in 0..d-1 : DOMAIN M[r] = 0..d-1
MaxOf(S) == CHOOSE x \in S : \A y \in S : y <= x
Diagonal(M) == [b \in DOMAIN M |-> M[b][b]]

IsExampleCall ==
  fn = "construct_C_graph" /\ args.edges = graph_edges /\ args.n = graph_nvertices

\* C1: for every n >= 1 and every list of edges (j,k), j # k, 0 <= j,k < n,
\* construct_C_graph(edges, n) returns a 2^n x 2^n matrix whose off-diagonal
\* entries are zero and whose diagonal entry at b is the number of listed edges
\* whose two end bits differ in b (bit j = j-th least significant bit); the
\* final scaling by 0.5 is exact.
C1_CostIsCutSize ==
  (fn = "construct_C_graph" /\ NoSelfLoop(args.edges)) =>
    /\ ~ret.raised
    /\ IsSquare(ret.value, 2^args.n)
    /\ \A r, c \in 0..2^args.n-1 :
         ret.value[r][c] = IF r = c THEN CutSize(args.edges, r) ELSE 0
    /\ LET sum == CGraphSum(args.edges, args.n, Len(args.edges)).value
       IN \A r, c \in 0..2^args.n-1 : sum[r][c] = 2 * ret.value[r][c]

C1_Witness ==
  /\ fn = "construct_C_graph"
  /\ args.n = 3
  /\ args.edges = << <<0, 1>>, <<2, 1>> >>
  /\ ~ret.raised
  /\ ret.value[2][2] = 2
  /\ ret.value[1][1] = 1

\* C2: for n = 5 and the notebook's five edges the diagonal of the cost
\* operator over the basis indices 0..31 is the literal sequence of the
\* notebook's consistency check.
C2_ExampleDiagonal ==
  IsExampleCall =>
    /\ ~ret.raised
    /\ IsSquare(ret.value, 32)
    /\ \A b \in 0..31 : ret.value[b][b] = expected_diag[b + 1]

C2_Witness ==
  /\ IsExampleCall
  /\ ~ret.raised
  /\ ret.value[1][1] = 1
  /\ ret.value[12][12] = 4

\* C3 as stated: the largest diagonal entry for the example graph is 4,
\* attained at exactly the indices 13 (01101) and 18 (10010).
C3_Original ==
  IsExampleCall =>
    /\ ~ret.raised
    /\ MaxOf({ret.value[b][b] : b \in 0..31}) = 4
    /\ {b \in 0..31 : ret.value[b][b] = MaxOf({ret.value[x][x] : x \in 0..31})} = {13, 18}

\* C3, amended: the largest diagonal entry for the example graph is 5 (all five
\* edges cut), attained at exactly the indices 13 (01101) and 18 (10010).
C3_ExampleOptimum ==
  IsExampleCall =>
    /\ ~ret.raised
    /\ MaxOf({ret.value[b][b] : b \in 0..31}) = 5
    /\ {b \in 0..31 : ret.value[b][b] = 5} = {13, 18}

C3_Witness ==
  /\ IsExampleCall
  /\ ~ret.raised
  /\ ret.value[13][13] = 5
  /\ ret.value[18][18] = 5

\* C4: for 0 <= j < n, entry (a,b) of single_site_operator(op, j, n) is
\* op[bit_j(a)][bit_j(b)] when a and b agree on every other bit and 0
\* otherwise; for op = X the matrix maps basis index b to b XOR 2^j.
C4_SingleSiteEntries ==
  (fn = "single_site_operator" /\ args.j \in 0..args.n-1) =>
    /\ ~ret.raised
    /\ IsSquare(ret.value, 2^args.n)
    /\ \A a, b \in 0..2^args.n-1 :
         ret.value[a][b] = IF AgreeOutside(a, b, args.n, {args.j})
                             THEN args.op[Bit(a, args.j)][Bit(b, args.j)]
                             ELSE 0
    /\ args.op = Xmat =>
         \A a, b \in 0..2^args.n-1 :
           ret.value[a][b] = IF a = FlipBit(b, args.j) THEN 1 ELSE 0

C4_Witness ==
  /\ fn = "single_site_operator"
  /\ args.op = Xmat
  /\ args.j = 1
  /\ args.n = 3
  /\ ~ret.raised
  /\ ret.value[0][2] = 1
  /\ ret.value[0][1] = 0

InRange(q, n) == q \in 0..n-1

\* C5: for distinct qubits i # j in [0,n), two_site_operator(op1, op2, i, j, n)
\* equals two_site_operator(op2, op1, j, i, n); both are the matrix whose entry
\* (a,b) is op1[bit_i(a)][bit_i(b)] * op2[bit_j(a)][bit_j(b)] when a and b
\* agree on every other bit, and 0 otherwise.
C5_TwoSiteSymmetric ==
  (/\ fn = "two_site_operator"
   /\ args.i # args.j
   /\ InRange(args.i, args.n)
   /\ InRange(args.j, args.n)) =>
    /\ ~ret.raised
    /\ ret = two_site_operator(args.op2, args.op1, args.j, args.i, args.n)
    /\ IsSquare(ret.value, 2^args.n)
    /\ \A a, b \in 0..2^args.n-1 :
         ret.value[a][b] =
           IF AgreeOutside(a, b, args.n, {args.i, args.j})
             THEN args.op1[Bit(a, args.i)][Bit(b, args.i)]
                  * args.op2[Bit(a, args.j)][Bit(b, args.j)]
             ELSE 0

C5_Witness ==
  /\ fn = "two_site_operator"
  /\ args.op1 = Zmat
  /\ args.op2 = Xmat
  /\ args.i = 2
  /\ args.j = 0
  /\ args.n = 3
  /\ ~ret.raised
  /\ ret.value[4][5] = -1
  /\ ret.value[0][1] = 1

HasSelfLoop(edges) == \E k \in DOMAIN edges : edges[k][1] = edges[k][2]

\* C6: two_site_operator called with i = j raises and returns no matrix, and
\* construct_C_graph raises for every edge list that contains a self-loop.
C6_SelfLoopRaises ==
  /\ (fn = "two_site_operator" /\ args.i = args.j) => ret.raised
  /\ (fn = "construct_C_graph" /\ HasSelfLoop(args.edges)) => ret.raised

C6_Witness ==
  /\ fn = "construct_C_graph"
  /\ args.n = 2
  /\ args.edges = << <<0, 1>>, <<1, 1>> >>
  /\ ret.raised

\* C7: single_site_operator with j outside [0,n) and two_site_operator with
\* either index outside [0,n) raise: no such call returns a matrix, so no
\* index is wrapped.
C7_OutOfRangeRaises ==
  /\ (fn = "single_site_operator" /\ ~InRange(args.j, args.n)) => ret.raised
  /\ (fn = "two_site_operator" /\ (~InRange(args.i, args.n) \/ ~InRange(args.j, args.n)))
       => ret.raised

C7_Witness ==
  /\ fn = "single_site_operator"
  /\ args.j = -1
  /\ args.n = 2
  /\ ret.raised

RECURSIVE SumTo(_, _)
\* f[0] + ... + f[k-1]
SumTo(f, k) == IF k = 0 THEN 0 ELSE SumTo(f, k-1) + f[k-1]

\* C8: construct_B(n) is a real symmetric 2^n x 2^n matrix; every row sums to
\* n, so B maps the all-equal vector to n times itself; and the entries are
\* non-negative, so every row's absolute sum is n and no eigenvalue exceeds n
\* (Gershgorin): n is the largest eigenvalue.
C8_MixerProperties ==
  fn = "construct_B" =>
    /\ ~ret.raised
    /\ IsSquare(ret.value, 2^args.n)
    /\ \A r, c \in 0..2^args.n-1 : ret.value[r][c] = ret.value[c][r]
    /\ \A r, c \in 0..2^args.n-1 : ret.value[r][c] >= 0
    /\ \A r \in 0..2^args.n-1 : SumTo(ret.value[r], 2^args.n) = args.n

C8_Witness ==
  /\ fn = "construct_B"
  /\ args.n = 3
  /\ ~ret.raised
  /\ ret.value[0][4] = 1
  /\ ret.value[0][3] = 0

IsEvolution == fn \in {"construct_wavefunction", "target_expval"}

\* C9: with equal-length lists of length p the unitaries applied to the uniform
\* state after k passes of the loop are exactly, in order, exp(-i gamma[1] C),
\* exp(-i beta[1] B), ..., exp(-i gamma[k] C), exp(-i beta[k] B); the call
\* returns after p passes, 2p unitaries applied, and construct_wavefunction
\* returns that state.
C9_LayerOrder ==
  (IsEvolution /\ Len(args.betas) = Len(args.gammas)) =>
    /\ psi.amp = uniform_state(Log2(Dim(args.B))).amp
    /\ Len(psi.applied) = 2 * it
    /\ \A k \in 1..it :
         /\ psi.applied[2*k - 1] = expm("C", args.gammas[k], args.C)
         /\ psi.applied[2*k] = expm("B", args.betas[k], args.B)
    /\ pc = "idle" =>
         /\ it = Len(args.betas)
         /\ ~ret.raised
         /\ fn = "construct_wavefunction" => ret.value = psi

C9_Witness ==
  /\ fn = "construct_wavefunction"
  /\ pc = "idle"
  /\ args.betas = <<1, 2>>
  /\ args.gammas = <<2, 1>>
  /\ Len(ret.value.applied) = 4
  /\ ret.value.applied[3].gen = "C"
  /\ ret.value.applied[3].angle = 1

\* C10: construct_wavefunction and target_expval called with
\* len(betas) # len(gammas) raise before any unitary is applied; the lists are
\* never truncated to the shorter length.
C10_UnequalLengthsRejected ==
  (IsEvolution /\ Len(args.betas) # Len(args.gammas)) =>
    /\ psi.applied = <<>>
    /\ pc = "idle" => ret.raised

\* C11: with empty parameter lists construct_wavefunction(B, C, [], []) applies
\* no unitary and returns the vector of len(B) = 2^n entries that all equal
\* 1/sqrt(2^n) = 2^(-n/2); target_expval with empty lists returns the
\* expectation of C in that same vector.
C11_DepthZeroIsUniform ==
  (IsEvolution /\ pc = "idle" /\ args.betas = <<>> /\ args.gammas = <<>>) =>
    LET d == Dim(args.B)
        s == IF fn = "target_expval" THEN ret.value.ket ELSE ret.value
    IN /\ ~ret.raised
       /\ d = 2^Log2(d)
       /\ s.applied = <<>>
       /\ DOMAIN s.amp = 0..d-1
       /\ \A b \in 0..d-1 : s.amp[b] = [num |-> 1, sqrt_den |-> d]
       /\ fn = "target_expval" =>
            /\ ret.value.bra = s
            /\ ret.value.op = args.C

C11_Witness ==
  /\ fn = "construct_wavefunction"
  /\ pc = "idle"
  /\ args.betas = <<>>
  /\ args.gammas = <<>>
  /\ Dim(args.B) = 4
  /\ ret.value.amp[3] = [num |-> 1, sqrt_den |-> 4]
  /\ ret.value.applied = <<>>

\* C12: the value target_expval returns to its caller is a real scalar: the
\* imaginary component of the expectation is discarded inside target_expval,
\* so the returned value never has a complex type.
C12_ReturnsReal ==
  (fn = "target_expval" /\ pc = "idle" /\ ~ret.raised) =>
    ret.value.dtype = "float64"

\* C13: target_expval is a pure function of its inputs: an evaluation of the
\* objective at the point of the first evaluation, with the same B and C,
\* returns the value the first evaluation returned, whatever was evaluated
\* before it or in between.
C13_SameInputsSameValue ==
  (drv.phase = "evaluating" /\ pc = "idle" /\ drv.nevals >= 1
     /\ ObjectiveArgs(drv.x) = ObjectiveArgs(drv.first.x)) =>
    Neg(ret.value) = drv.first.y

\* the third evaluation of a run is at the point of the first again
C13_Witness ==
  /\ drv.phase = "evaluating"
  /\ pc = "idle"
  /\ drv.nevals = 2
  /\ drv.x = drv.first.x
  /\ Neg(ret.value) = drv.first.y
  /\ Len(ret.value.ket.applied) = 2 * p

\* C14: the objective the minimizer evaluates is
\* f(x) = -target_expval(B, C, x[0:p], x[p:2p]) for x of length 2p: B and C
\* are the mixer and the cost operator of the 5-vertex example graph, the
\* first p components of x are the betas and the last p the gammas, the value
\* handed back is the negated expectation, and the first point is zeros(2p).
C14_ObjectiveOfMinimizer ==
  /\ drv.phase = "evaluating" =>
       /\ fn = "target_expval"
       /\ Len(drv.x) = 2 * p
       /\ args.B = construct_B_5.value
       /\ args.C = construct_C_graph_5.value
       /\ Len(args.betas) = p
       /\ Len(args.gammas) = p
       /\ \A k \in 1..p : args.betas[k] = drv.x[k] /\ args.gammas[k] = drv.x[p + k]
       /\ drv.nevals = 0 => \A k \in 1..2*p : drv.x[k] = 0
  /\ (drv.phase = "minimizing" /\ drv.nevals >= 1) =>
       /\ drv.y.op = "neg"
       /\ drv.y.arg.op = construct_C_graph_5.value
       /\ drv.y.arg.bra = drv.y.arg.ket
       /\ Len(drv.y.arg.ket.applied) = 2 * p
       /\ \A k \in 1..p :
            /\ drv.y.arg.ket.applied[2*k - 1].gen = "C"
            /\ drv.y.arg.ket.applied[2*k - 1].angle = drv.x[p + k]
            /\ drv.y.arg.ket.applied[2*k].gen = "B"
            /\ drv.y.arg.ket.applied[2*k].angle = drv.x[k]

C14_Witness ==
  /\ drv.phase = "minimizing"
  /\ drv.nevals = 2
  /\ drv.first.x = <<0, 0, 0, 0>>
  /\ drv.x = <<1, 2, 0, 1>>
  /\ drv.y.op = "neg"
  /\ drv.y.arg.ket.applied[1].angle = 0
  /\ drv.y.arg.ket.applied[2].angle = 1
  /\ drv.y.arg.ket.applied[4].angle = 2

\* C15: in one run of the minimizer the mixer B and the cost operator C are
\* each built exactly once, before the first objective evaluation; the number
\* of calls of construct_B and construct_C_graph does not grow with the
\* number of evaluations.
C15_OperatorsBuiltOnce ==
  /\ drv.builds_B <= 1
  /\ drv.builds_C <= 1

\* the state construct_wavefunction returns for the first k pairs
RECURSIVE Evolve(_, _, _, _)
Evolve(B, C, pairs, k) ==
  IF k = 0 THEN uniform_state(Log2(Dim(B)))
  ELSE LoopBody(B, C, Evolve(B, C, pairs, k - 1), pairs[k])

\* the value target_expval returns for the slices of the point x
ExpvalAt(x) ==
  LET a == ObjectiveArgs(x)
      pairs == PyZip(a.betas, a.gammas)
  IN np_vdot_C(Evolve(a.B, a.C, pairs, Len(pairs)), a.C)

\* C16: the result of the optimizer driver holds the minimizing vector x* and
\* the un-negated objective value +target_expval(B, C, x*[0:p], x*[p:2p]),
\* not the minimizer's negated function value f(x*).
C16_ResultUnNegated ==
  drv.phase \in {"done", "psi_opt"} =>
    drv.res.fun \in {ExpvalAt(drv.res.x), CastReal(ExpvalAt(drv.res.x))}

\* C17: a parameter vector of a run that did not converge is not used to
\* build the optimized wavefunction unless the convergence flag of the result
\* has been examined.
C17_FlagExaminedBeforeUse ==
  (drv.phase = "psi_opt" /\ ~drv.res.success) => "success" \in drv.reads

\* C18: construct_wavefunction and target_expval leave their arguments as
\* they were passed: no step taken between the entry of the call and its
\* return changes B, C, betas or gammas.
C18_ArgumentsUnchanged ==
  [][pc = "loop" => args' = args]_vars

\* a call of target_expval with two layers has returned and B is still the
\* mixer that was passed
C18_Witness ==
  /\ fn = "target_expval"
  /\ drv.phase = "idle"
  /\ pc = "idle"
  /\ it = 2
  /\ args.betas = <<2, 1>>
  /\ args.gammas = <<1, 2>>
  /\ args.B = construct_B(2).value
  /\ ret.value.op = args.C

\* C19: for every dimA, dimB >= 1, every square rho of dimension dimA*dimB
\* and every M of dimension dimA, the first component rho_A of
\* partial_trace(rho, dimA, dimB) satisfies
\* trace(M rho_A) = trace((M kron I_dimB) rho).
C19_PartialTraceConsistent ==
  fn = "partial_trace" =>
    LET rho_A == ret.value[1]
        I_dimB == [r \in 0..args.dimB-1 |-> [c \in 0..args.dimB-1 |->
                     IF r = c THEN 1 ELSE 0]]
    IN /\ ~ret.raised
       /\ Dim(rho_A) = args.dimA
       /\ np_trace(MatMul(args.M, rho_A))
            = np_trace(MatMul(KronMat(args.M, I_dimB), args.rho))

C19_Witness ==
  /\ fn = "partial_trace"
  /\ args.dimA = 2
  /\ args.dimB = 2
  /\ args.rho = CountingMat(4)
  /\ args.M = CountingMat(2)
  /\ ret.value[1][1][0] = 23
  /\ np_trace(MatMul(args.M, ret.value[1])) = 194

\* the outcome of adding the results of two calls: raised when one of them is
OutcomeAdd(ra, rb) ==
  IF ra.raised \/ rb.raised THEN Raise ELSE Return(MatAdd(ra.value, rb.value))

\* the list with the entries at positions k and k+1 exchanged
SwapAdjacent(s, k) ==
  [m \in 1..Len(s) |-> IF m = k THEN s[k + 1] ELSE IF m = k + 1 THEN s[k] ELSE s[m]]

\* the edge list with the edge at position k written (k,j) instead of (j,k)
FlipEdge(s, k) ==
  [m \in 1..Len(s) |-> IF m = k THEN <<s[k][2], s[k][1]>> ELSE s[m]]

\* C21: duplicate edges add weight: the empty list gives the zero matrix and
\* for every split of an edge list without self-loops into two non-empty
\* parts E1 ++ E2, construct_C_graph(E1 ++ E2, n) is construct_C_graph(E1, n)
\* + construct_C_graph(E2, n), so
\* an edge listed k times adds k to the diagonal entry of every assignment
\* cutting it; exchanging two neighbouring edges of the list, or writing an
\* edge (k,j) instead of (j,k), leaves the result as it is.
C21_DuplicateEdgesAdd ==
  (fn = "construct_C_graph" /\ NoSelfLoop(args.edges)) =>
    LET E == args.edges
        n == args.n
    IN /\ ~ret.raised
       /\ construct_C_graph(<<>>, n) = Return(np_zeros(2^n))
       /\ \A k \in 1..Len(E)-1 :
            ret = OutcomeAdd(construct_C_graph(SubSeq(E, 1, k), n),
                             construct_C_graph(SubSeq(E, k + 1, Len(E)), n))
       /\ \A k \in 1..Len(E)-1 : ret = construct_C_graph(SwapAdjacent(E, k), n)
       /\ \A k \in 1..Len(E) : ret = construct_C_graph(FlipEdge(E, k), n)
       /\ \A b \in 0..2^n-1 :
            ret.value[b][b] =
              Cardinality({k \in 1..Len(E) : Bit(b, E[k][1]) # Bit(b, E[k][2])})

\* the same edge listed twice, once in each orientation, counts twice
C21_Witness ==
  /\ fn = "construct_C_graph"
  /\ args.n = 2
  /\ args.edges = << <<0, 1>>, <<1, 0>> >>
  /\ ~ret.raised
  /\ ret.value[1][1] = 2
  /\ ret.value[2][2] = 2
  /\ ret.value[3][3] = 0
  /\ construct_C_graph(<< <<0, 1>> >>, 2).value[1][1] = 1

IsPermutation(perm) == {perm[k] : k \in DOMAIN perm} = 0..Len(perm)-1

\* C22: reorder_gate permutes tensor factors as its docstring states: for G
\* the Kronecker product of n 2x2 factors and perm a permutation of 0..n-1,
\* factor k of reorder_gate(G, perm) is factor perm[k] of G, so that
\* reorder_gate(kron(kron(A, B), C), [1, 2, 0]) = kron(kron(B, C), A) and the
\* identity permutation returns G; reorder_gate(CNOT, [1, 0]) is the CNOT
\* with control and target exchanged.
C22_ReorderPermutesFactors ==
  (fn = "reorder_gate" /\ IsPermutation(args.perm)) =>
    LET n == Len(args.perm)
    IN /\ ~ret.raised
       /\ IsSquare(ret.value, 2^n)
       /\ args.factors # <<>> =>
            ret.value = KronAll([k \in 1..n |-> args.factors[args.perm[k] + 1]], n)
       /\ (\A k \in 1..n : args.perm[k] = k - 1) => ret.value = args.G
       /\ args.factors = <<>> =>
            \A r, c \in 0..3 :
              ret.value[r][c] =
                IF <<r, c>> \in {<<0, 0>>, <<1, 3>>, <<2, 2>>, <<3, 1>>} THEN 1 ELSE 0

\* the docstring's example with three different factors
C22_Witness ==
  /\ fn = "reorder_gate"
  /\ args.perm = <<1, 2, 0>>
  /\ args.factors = <<Xmat, Zmat, CountingMat(2)>>
  /\ ~ret.raised
  /\ ret.value = KronMat(KronMat(Zmat, CountingMat(2)), Xmat)
  /\ ret.value # args.G

\* C23: for distinct qubits i # j in [0,n) and 2x2 matrices op1, op2,
\* two_site_operator(op1, op2, i, j, n) is the matrix product
\* single_site_operator(op1, i, n) single_site_operator(op2, j, n), and the
\* two single-site operators commute: both helpers number the qubits alike.
C23_TwoSiteIsProduct ==
  (fn = "two_site_operator" /\ InRange(args.i, args.n) /\ InRange(args.j, args.n)
     /\ args.i # args.j) =>
    LET s1 == single_site_operator(args.op1, args.i, args.n)
        s2 == single_site_operator(args.op2, args.j, args.n)
    IN /\ ~ret.raised
       /\ ~s1.raised
       /\ ~s2.raised
       /\ ret.value = MatMul(s1.value, s2.value)
       /\ MatMul(s1.value, s2.value) = MatMul(s2.value, s1.value)

\* the notebook's example X_0 Z_2 on three qubits
C23_Witness ==
  /\ fn = "two_site_operator"
  /\ args.op1 = Xmat
  /\ args.op2 = Zmat
  /\ args.i = 0
  /\ args.j = 2
  /\ args.n = 3
  /\ ~ret.raised
  /\ ret.value[0][1] = 1
  /\ ret.value[4][5] = -1
  /\ ret.value[7][6] = -1
  /\ ret.value = MatMul(single_site_operator(Xmat, 0, 3).value,
                        single_site_operator(Zmat, 2, 3).value)

\* C24: for every n and every edge list without self-loops the diagonal of
\* construct_C_graph(edges, n) is the same at b and at its bitwise complement
\* 2^n - 1 - b, every entry lies in 0..len(edges), the entries at 0 and at
\* 2^n - 1 are 0, and the diagonal sums to 2^(n-1) * len(edges); the
\* objective for p = 0, the mean of the diagonal, is therefore half the
\* number of edges.
C24_DiagonalSymmetry ==
  /\ (fn = "construct_C_graph" /\ NoSelfLoop(args.edges)) =>
       LET d == 2^args.n
           m == Len(args.edges)
       IN /\ ~ret.raised
          /\ \A b \in 0..d-1 :
               /\ ret.value[b][b] = ret.value[d - 1 - b][d - 1 - b]
               /\ ret.value[b][b] \in 0..m
          /\ ret.value[0][0] = 0
          /\ ret.value[d - 1][d - 1] = 0
          /\ 2 * SumTo(Diagonal(ret.value), d) = d * m
  /\ (fn = "target_expval" /\ pc = "idle" /\ args.betas = <<>> /\ args.gammas = <<>>) =>
       LET d == Dim(args.C)
           n == Log2(d)
           ket == ret.value.ket
       IN /\ args.C = construct_C_graph(LineEdges(n), n).value
          /\ ket.applied = <<>>
          /\ \A b \in 0..d-1 : ket.amp[b].num = 1 /\ ket.amp[b].sqrt_den = d
          /\ 2 * SumTo(Diagonal(ret.value.op), d) = d * Len(LineEdges(n))

C24_Witness ==
  /\ fn = "construct_C_graph"
  /\ args.n = 3
  /\ args.edges = << <<0, 1>>, <<2, 1>> >>
  /\ ~ret.raised
  /\ ret.value[2][2] = 2
  /\ ret.value[5][5] = 2
  /\ ret.value[0][0] = 0
  /\ ret.value[7][7] = 0
  /\ SumTo(Diagonal(ret.value), 8) = 8

====
